---- MODULE Spec2Model ----
(***************************************************************************)
(* Model of BackupEngine (Python/src/Contribute_Checker/backup_engine.py). *)
(*                                                                         *)
(* The file system is modelled by three maps with a dynamic domain: the    *)
(* data files (sources and restore destinations), the artifact files of    *)
(* the backup directory and the safety copies beside a destination; the    *)
(* index file is a fourth piece of disk state.  File contents are          *)
(* sequences of characters.  A timestamp is a record day/sec/sub: "sub" is *)
(* the sub-second part that isoformat() keeps and strftime("...%S") drops. *)
(* Every engine call reads a strictly later clock than the call before it: *)
(* later within the same second, or 24 hours later.                        *)
(* Text-mode I/O is modelled as on POSIX: reading translates "\r\n" and    *)
(* "\r" to "\n", writing leaves "\n" alone.                                *)
(***************************************************************************)
EXTENDS Integers, Sequences, FiniteSets, TLC

VARIABLES clock, files, artifacts, safetyCopies, indexFile,
          backup_history, last_backup_hash, last, steps, removed_ids, other

vars == <<clock, files, artifacts, safetyCopies, indexFile,
          backup_history, last_backup_hash, last, steps, removed_ids, other>>

(***************************************************************************)
(* Bounds of the model.                                                    *)
(***************************************************************************)
MaxSteps == 3
MaxBackups == 3
MaxKeepCount == 1
MaxKeepDays == 2
MaxLimit == 1

(***************************************************************************)
(* Inputs.                                                                 *)
(***************************************************************************)
DirPath == <<"data", "contributors.json">>
data_file == <<"contributors.json">>
NoneArg == <<>>
DataPaths == {DirPath, data_file}
WritablePaths == {DirPath}
Contents == { <<"0">>, <<"1", "\r", "\n">>, <<>> }
Deltas == {"sub", "day"}
NoneHash == <<"None">>

(***************************************************************************)
(* Clock and time formatting.                                              *)
(***************************************************************************)
Advance(t, d) ==
    CASE d = "sub" -> [t EXCEPT !.sub = t.sub + 1]
      [] d = "day" -> [t EXCEPT !.day = t.day + 1]

\* strftime("%Y%m%d_%H%M%S"): second resolution
Strftime(t) == <<t.day, t.sec>>

\* datetime.isoformat(): full resolution, compared as a string
IsoFormat(t) == <<t.day, t.sec, t.sub>>

\* datetime.fromisoformat()
FromIsoFormat(s) == [day |-> s[1], sec |-> s[2], sub |-> s[3]]

\* order of isoformat strings (lexicographic)
IsoLess(a, b) ==
    \/ a[1] < b[1]
    \/ a[1] = b[1] /\ a[2] < b[2]
    \/ a[1] = b[1] /\ a[2] = b[2] /\ a[3] < b[3]

\* datetime >= datetime
TimeGeq(a, b) ==
    \/ a.day > b.day
    \/ a.day = b.day /\ a.sec > b.sec
    \/ a.day = b.day /\ a.sec = b.sec /\ a.sub >= b.sub

\* datetime - timedelta(days=n)
MinusDays(t, n) == [t EXCEPT !.day = t.day - n]

(***************************************************************************)
(* File content conversions.                                               *)
(***************************************************************************)
Put(f, k, v) == [x \in (DOMAIN f) \cup {k} |-> IF x = k THEN v ELSE f[x]]

Remove(f, k) == [x \in (DOMAIN f) \ {k} |-> f[x]]

\* open(path, 'r').read(): universal newlines
RECURSIVE TextRead(_)
TextRead(b) ==
    IF b = <<>> THEN <<>>
    ELSE IF Head(b) = "\r"
         THEN IF Len(b) >= 2 /\ b[2] = "\n"
              THEN <<"\n">> \o TextRead(SubSeq(b, 3, Len(b)))
              ELSE <<"\n">> \o TextRead(Tail(b))
         ELSE <<Head(b)>> \o TextRead(Tail(b))

\* open(path, 'w').write(data): "\n" is written as os.linesep, "\n" on POSIX
TextWrite(s) == s

\* gzip.open(path, 'wb').write(data.encode('utf-8'))
Gzip(s) == <<"gz">> \o s

\* gzip.open(path, 'rb').read(): fails on a file without the gzip header
Gunzip(b) ==
    IF b # <<>> /\ Head(b) = "gz"
    THEN [ok |-> TRUE, data |-> Tail(b)]
    ELSE [ok |-> FALSE, data |-> <<>>]

\* hashlib.md5 over the raw bytes, taken as collision free
Md5(b) == <<"md5">> \o b

Whitespace == {" ", "\t", "\n", "\r"}
Digits == {"0", "1"}

RECURSIVE LStrip(_)
LStrip(s) == IF s # <<>> /\ Head(s) \in Whitespace THEN LStrip(Tail(s)) ELSE s

RECURSIVE RStrip(_)
RStrip(s) ==
    IF s # <<>> /\ s[Len(s)] \in Whitespace
    THEN RStrip(SubSeq(s, 1, Len(s) - 1))
    ELSE s

\* json.loads(s) succeeds: one JSON value between optional whitespace;
\* the values of the model's alphabet are the integers without leading zero
JsonLoads(s) ==
    LET v == RStrip(LStrip(s)) IN
    /\ v # <<>>
    /\ \A i \in 1..Len(v) : v[i] \in Digits
    /\ (Len(v) = 1 \/ v[1] # "0")

(***************************************************************************)
(* Engine state handed to the operations.                                  *)
(***************************************************************************)
EngineState ==
    [hist |-> backup_history, lbh |-> last_backup_hash, arts |-> artifacts,
     idx |-> indexFile, src |-> files, safety |-> safetyCopies]

\* _save_backup_index: json.dump of the whole history over the index file
SaveBackupIndex(hist) == [present |-> TRUE, records |-> hist]

\* _get_file_hash
GetFileHash(src, path) ==
    IF path \notin DOMAIN src THEN NoneHash ELSE Md5(src[path])

ResolveDataFile(arg) == IF arg = NoneArg THEN data_file ELSE arg

BackupId(t) == [prefix |-> "backup_full", stamp |-> Strftime(t)]

ArtifactName(id, compress) == [id |-> id, gz |-> compress]

\* mutant of MissingSource: the hash is taken and stored before the check
MissingSourceResetsHash(st) ==
    [st |-> [st EXCEPT !.lbh = NoneHash],
     result |-> [success |-> FALSE, error |-> "Data file not found"],
     saves |-> 0, writes |-> 0]

\* lines 109-110: the early return on a missing data file
MissingSource(st) ==
    [st |-> st, result |-> [success |-> FALSE, error |-> "Data file not found"],
     saves |-> 0, writes |-> 0]

\* mutant of UpdatedLastHash: the cache is not updated after the write
UpdatedLastHashStale(st, file_hash) == st.lbh

\* line 151: self.last_backup_hash = file_hash
UpdatedLastHash(st, file_hash) == file_hash

(***************************************************************************)
(* create_full_backup.  Returns the new engine state, the result, the      *)
(* number of index saves and the number of artifact writes of the call.    *)
(***************************************************************************)
CreateFullBackup(st, arg, compress, now) ==
    LET df == ResolveDataFile(arg) IN
    IF df \notin DOMAIN st.src
    THEN MissingSource(st)
    ELSE
      LET backup_name == BackupId(now)
          data == TextRead(st.src[df])
          file_hash == GetFileHash(st.src, df)
          backup_file == ArtifactName(backup_name, compress)
          stored == IF compress THEN Gzip(data) ELSE TextWrite(data)
          arts1 == Put(st.arts, backup_file, stored)
          backup_info ==
              [backup_id |-> backup_name, type |-> "full",
               timestamp |-> IsoFormat(now), source_file |-> df,
               file_hash |-> file_hash, original_size |-> Len(data),
               compressed |-> compress, size |-> Len(stored),
               backup_file |-> backup_file]
          hist1 == Append(st.hist, backup_info)
      IN
      IF compress /\ Len(data) = 0
      THEN \* compressed_size / original_size raises ZeroDivisionError
           [st |-> [st EXCEPT !.arts = arts1],
            result |-> [success |-> FALSE, error |-> "division by zero"],
            saves |-> 0, writes |-> 1]
      ELSE [st |-> [st EXCEPT !.arts = arts1, !.hist = hist1,
                              !.lbh = UpdatedLastHash(st, file_hash),
                              !.idx = SaveBackupIndex(hist1)],
            result |-> [success |-> TRUE, backup_id |-> backup_name,
                        backup_file |-> backup_file, size |-> Len(stored),
                        compressed |-> compress],
            saves |-> 1, writes |-> 1]

\* index of the first record with this backup_id, 0 when there is none
GetBackupInfo(hist, backup_id) ==
    IF \E i \in 1..Len(hist) : hist[i].backup_id = backup_id
    THEN CHOOSE i \in 1..Len(hist) :
            /\ hist[i].backup_id = backup_id
            /\ \A j \in 1..(i - 1) : hist[j].backup_id # backup_id
    ELSE 0

\* the loop "for backup in self.backup_history: if id matches: update; break"
Retag(hist, backup_id, type) ==
    LET i == GetBackupInfo(hist, backup_id) IN
    IF i = 0 THEN hist ELSE [hist EXCEPT ![i].type = type]

RetagBasedOn(hist, backup_id, type, base) ==
    LET i == GetBackupInfo(hist, backup_id) IN
    IF i = 0 THEN hist
    ELSE [hist EXCEPT ![i] =
            [f \in (DOMAIN hist[i]) \cup {"based_on"} |->
                IF f = "type" THEN type
                ELSE IF f = "based_on" THEN base
                ELSE hist[i][f]]]

AddField(r, k, v) == [f \in (DOMAIN r) \cup {k} |-> IF f = k THEN v ELSE r[f]]

(***************************************************************************)
(* create_incremental_backup                                               *)
(***************************************************************************)
CreateIncrementalBackup(st, arg, compress, now) ==
    LET df == ResolveDataFile(arg)
        current_hash == GetFileHash(st.src, df)
    IN
    IF current_hash = st.lbh
    THEN [st |-> st, result |-> [success |-> TRUE, skipped |-> TRUE],
          saves |-> 0, writes |-> 0]
    ELSE
      LET full == CreateFullBackup(st, df, compress, now) IN
      IF full.result.success
      THEN LET hist1 == Retag(full.st.hist, full.result.backup_id, "incremental")
           IN [st |-> [full.st EXCEPT !.hist = hist1, !.idx = SaveBackupIndex(hist1)],
               result |-> AddField(full.result, "type", "incremental"),
               saves |-> full.saves + 1, writes |-> full.writes]
      ELSE full

\* index of the last record of type full, 0 when there is none
LastFull(hist) ==
    IF \E i \in 1..Len(hist) : hist[i].type = "full"
    THEN CHOOSE i \in 1..Len(hist) :
            /\ hist[i].type = "full"
            /\ \A j \in (i + 1)..Len(hist) : hist[j].type # "full"
    ELSE 0

\* mutant of CreateDifferentialBackup: no fallback, the record is retagged
\* Differential also when the index holds no Full record
CreateDifferentialNoFallback(st, arg, compress, now) ==
    LET lf == LastFull(st.hist)
        full == CreateFullBackup(st, arg, compress, now)
    IN
    IF full.result.success
    THEN LET hist1 == IF lf = 0
                      THEN Retag(full.st.hist, full.result.backup_id, "differential")
                      ELSE RetagBasedOn(full.st.hist, full.result.backup_id,
                                        "differential", st.hist[lf].backup_id)
             res1 == AddField(full.result, "type", "differential")
         IN [st |-> [full.st EXCEPT !.hist = hist1, !.idx = SaveBackupIndex(hist1)],
             result |-> IF lf = 0 THEN res1
                        ELSE AddField(res1, "based_on", st.hist[lf].backup_id),
             saves |-> full.saves + 1, writes |-> full.writes]
    ELSE full

(***************************************************************************)
(* create_differential_backup                                              *)
(***************************************************************************)
CreateDifferentialBackup(st, arg, compress, now) ==
    LET lf == LastFull(st.hist) IN
    IF lf = 0
    THEN CreateFullBackup(st, arg, compress, now)
    ELSE
      LET full == CreateFullBackup(st, arg, compress, now)
          base == st.hist[lf].backup_id
      IN
      IF full.result.success
      THEN LET hist1 == RetagBasedOn(full.st.hist, full.result.backup_id,
                                     "differential", base)
           IN [st |-> [full.st EXCEPT !.hist = hist1, !.idx = SaveBackupIndex(hist1)],
               result |-> AddField(AddField(full.result, "type", "differential"),
                                   "based_on", base),
               saves |-> full.saves + 1, writes |-> full.writes]
      ELSE full

(***************************************************************************)
(* verify_backup                                                           *)
(***************************************************************************)
VerifyBackup(st, backup_id) ==
    LET i == GetBackupInfo(st.hist, backup_id) IN
    IF i = 0
    THEN [success |-> FALSE, error |-> "Backup not found"]
    ELSE
      LET backup_info == st.hist[i]
          backup_file == backup_info.backup_file
      IN
      IF backup_file \notin DOMAIN st.arts
      THEN [success |-> FALSE, error |-> "Backup file not found"]
      ELSE
        LET bytes == st.arts[backup_file]
            parsed == IF backup_info.compressed
                      THEN Gunzip(bytes).ok /\ JsonLoads(Gunzip(bytes).data)
                      ELSE JsonLoads(TextRead(bytes))
        IN
        IF parsed
        THEN [success |-> TRUE, valid |-> TRUE, backup_id |-> backup_id,
              file_size |-> Len(bytes)]
        ELSE [success |-> FALSE, valid |-> FALSE,
              error |-> "Backup verification failed"]

\* os.path.dirname
Dirname(path) == SubSeq(path, 1, Len(path) - 1)

\* os.makedirs(d, exist_ok=True) succeeds; os.makedirs("") raises
MakedirsOk(d) == d # <<>>

SafetyName(path, now) == [dest |-> path, stamp |-> Strftime(now)]

\* mutant of DestAfterRestore: the destination is written before the JSON check
DestWrittenFirst(src, restore_path, data, valid) ==
    Put(src, restore_path, TextWrite(data))

\* lines 373-378: json.loads(data) raises before the destination is opened
DestAfterRestore(src, restore_path, data, valid) ==
    IF valid THEN Put(src, restore_path, TextWrite(data)) ELSE src

\* mutant of SafetyCopy: the destination is copied whatever the flag says
SafetyCopyUnconditional(safety, src, restore_path, create_restore_backup, now) ==
    IF restore_path \in DOMAIN src
    THEN Put(safety, SafetyName(restore_path, now), src[restore_path])
    ELSE safety

\* lines 359-362: shutil.copy2(restore_path, safety_backup), made before the
\* artifact is read
SafetyCopy(safety, src, restore_path, create_restore_backup, now) ==
    IF create_restore_backup /\ (restore_path \in DOMAIN src)
    THEN Put(safety, SafetyName(restore_path, now), src[restore_path])
    ELSE safety

(***************************************************************************)
(* restore_backup.  Returns the new engine state and the result.           *)
(***************************************************************************)
RestoreBackup(st, backup_id, restore_arg, create_restore_backup, now) ==
    LET i == GetBackupInfo(st.hist, backup_id) IN
    IF i = 0
    THEN [st |-> st, result |-> [success |-> FALSE, error |-> "Backup not found"]]
    ELSE
      LET backup_info == st.hist[i]
          backup_file == backup_info.backup_file
      IN
      IF backup_file \notin DOMAIN st.arts
      THEN [st |-> st, result |-> [success |-> FALSE, error |-> "Backup file not found"]]
      ELSE
        LET restore_path == IF restore_arg = NoneArg
                            THEN backup_info.source_file ELSE restore_arg
            safety1 == SafetyCopy(st.safety, st.src, restore_path,
                                  create_restore_backup, now)
            st1 == [st EXCEPT !.safety = safety1]
            bytes == st.arts[backup_file]
            readOk == IF backup_info.compressed THEN Gunzip(bytes).ok ELSE TRUE
            data == IF backup_info.compressed
                    THEN Gunzip(bytes).data ELSE TextRead(bytes)
        IN
        IF ~readOk
        THEN [st |-> st1,
              result |-> [success |-> FALSE, error |-> "Restore failed: BadGzipFile"]]
        ELSE IF ~JsonLoads(data)
        THEN [st |-> [st1 EXCEPT !.src = DestAfterRestore(st.src, restore_path, data, FALSE)],
              result |-> [success |-> FALSE, error |-> "Restore failed: JSONDecodeError"]]
        ELSE IF ~MakedirsOk(Dirname(restore_path))
        THEN [st |-> st1,
              result |-> [success |-> FALSE, error |-> "Restore failed: FileNotFoundError"]]
        ELSE [st |-> [st1 EXCEPT !.src = DestAfterRestore(st.src, restore_path, data, TRUE)],
              result |-> [success |-> TRUE, backup_id |-> backup_id,
                          restored_to |-> restore_path,
                          timestamp |-> backup_info.timestamp]]

(***************************************************************************)
(* cleanup_old_backups                                                     *)
(***************************************************************************)
\* insertion of r into a newest-first sequence, behind its equals
RECURSIVE InsertNewestFirst(_, _)
InsertNewestFirst(s, r) ==
    IF s = <<>> THEN <<r>>
    ELSE IF IsoLess(Head(s).timestamp, r.timestamp)
         THEN <<r>> \o s
         ELSE <<Head(s)>> \o InsertNewestFirst(Tail(s), r)

\* sorted(history, key=timestamp, reverse=True): stable
RECURSIVE SortNewestFirst(_)
SortNewestFirst(hist) ==
    IF hist = <<>> THEN <<>>
    ELSE InsertNewestFirst(SortNewestFirst(SubSeq(hist, 1, Len(hist) - 1)),
                           hist[Len(hist)])

\* mutant of KeepRecord: the count limit is off by one
KeepRecordOffByOne(i, backup, keep_count, cutoff_date) ==
    IF i <= keep_count THEN TRUE
    ELSE TimeGeq(FromIsoFormat(backup.timestamp), cutoff_date)

\* the three branches of the loop; i is the 0-based enumerate index
KeepRecord(i, backup, keep_count, cutoff_date) ==
    IF i < keep_count THEN TRUE
    ELSE TimeGeq(FromIsoFormat(backup.timestamp), cutoff_date)

\* the records of sorted_backups[from..] that are kept (flag) or removed (~flag)
RECURSIVE Classified(_, _, _, _, _)
Classified(sorted, from, keep_count, cutoff_date, flag) ==
    IF from > Len(sorted) THEN <<>>
    ELSE LET rest == Classified(sorted, from + 1, keep_count, cutoff_date, flag)
         IN IF KeepRecord(from - 1, sorted[from], keep_count, cutoff_date) = flag
            THEN <<sorted[from]>> \o rest
            ELSE rest

\* mutant of RemoveFiles: the first file that cannot be removed ends the loop
RECURSIVE RemoveFilesAbort(_, _, _)
RemoveFilesAbort(arts, to_remove, locked) ==
    IF to_remove = <<>> THEN [arts |-> arts, removed_count |-> 0]
    ELSE LET f == Head(to_remove).backup_file IN
         IF f \in DOMAIN arts
         THEN IF f \in locked
              THEN [arts |-> arts, removed_count |-> 0]
              ELSE LET r == RemoveFilesAbort(Remove(arts, f), Tail(to_remove), locked)
                   IN [arts |-> r.arts, removed_count |-> r.removed_count + 1]
         ELSE RemoveFilesAbort(arts, Tail(to_remove), locked)

\* the loop over to_remove: os.remove when the file exists; os.remove raises
\* for the files of locked, and the exception is caught inside the loop
RECURSIVE RemoveFiles(_, _, _)
RemoveFiles(arts, to_remove, locked) ==
    IF to_remove = <<>> THEN [arts |-> arts, removed_count |-> 0]
    ELSE LET f == Head(to_remove).backup_file IN
         IF f \in DOMAIN arts
         THEN IF f \in locked
              THEN RemoveFiles(arts, Tail(to_remove), locked)
              ELSE LET r == RemoveFiles(Remove(arts, f), Tail(to_remove), locked)
                   IN [arts |-> r.arts, removed_count |-> r.removed_count + 1]
         ELSE RemoveFiles(arts, Tail(to_remove), locked)

CleanupOldBackups(st, keep_count, keep_days, now, locked) ==
    IF st.hist = <<>>
    THEN [st |-> st, result |-> [success |-> TRUE, removed_count |-> 0],
          saves |-> 0, to_remove |-> <<>>]
    ELSE
      LET sorted_backups == SortNewestFirst(st.hist)
          cutoff_date == MinusDays(now, keep_days)
          kept == Classified(sorted_backups, 1, keep_count, cutoff_date, TRUE)
          to_remove == Classified(sorted_backups, 1, keep_count, cutoff_date, FALSE)
          rm == RemoveFiles(st.arts, to_remove, locked)
      IN [st |-> [st EXCEPT !.arts = rm.arts, !.hist = kept,
                            !.idx = SaveBackupIndex(kept)],
          result |-> [success |-> TRUE, removed_count |-> rm.removed_count,
                      remaining_count |-> Len(kept)],
          saves |-> 1, to_remove |-> to_remove]

(***************************************************************************)
(* list_backups, get_backup_statistics, export_backup_summary              *)
(***************************************************************************)
\* the limit argument: None, or an integer
NoLimit == [given |-> FALSE, n |-> 0]

Limits == {NoLimit} \cup {[given |-> TRUE, n |-> k] : k \in 0..MaxLimit}

\* "if limit:" holds for an integer other than 0
Truthy(limit) == limit.given /\ limit.n # 0

\* backups[:limit] for limit >= 0
Prefix(s, n) == SubSeq(s, 1, IF n < Len(s) THEN n ELSE Len(s))

\* mutant of HistoryAfterList: self.backup_history.sort(...) sorts in place
HistoryAfterListInPlace(hist) == SortNewestFirst(hist)

\* line 259: sorted() builds a new list, self.backup_history is left alone
HistoryAfterList(hist) == hist

ListBackups(hist, limit) ==
    LET backups == SortNewestFirst(hist) IN
    IF Truthy(limit) THEN Prefix(backups, limit.n) ELSE backups

\* mutant of StoredSize: the size before compression is summed
StoredSizeOriginal(backup) == backup.original_size

\* line 499: backup.get("compressed_size", backup.get("file_size", 0))
StoredSize(backup) == backup.size

\* the loop of lines 498-503 over the history, from record i on
RECURSIVE TotalSize(_, _)
TotalSize(hist, i) ==
    IF i > Len(hist) THEN 0 ELSE StoredSize(hist[i]) + TotalSize(hist, i + 1)

\* by_type after the loop: a dictionary that holds only the types met
RECURSIVE ByType(_, _)
ByType(hist, i) ==
    IF i > Len(hist) THEN << >>
    ELSE LET rest == ByType(hist, i + 1)
             btype == hist[i].type
         IN Put(rest, btype, IF btype \in DOMAIN rest THEN rest[btype] + 1 ELSE 1)

\* the timestamp of "no backup"
NoTime == << >>

GetBackupStatistics(hist) ==
    IF hist = <<>>
    THEN [total_backups |-> 0, total_storage |-> 0, by_type |-> << >>,
          oldest_backup |-> NoTime, newest_backup |-> NoTime]
    ELSE LET newest_first == SortNewestFirst(hist) IN
         [total_backups |-> Len(hist), total_storage |-> TotalSize(hist, 1),
          by_type |-> ByType(hist, 1),
          oldest_backup |-> newest_first[Len(newest_first)].timestamp,
          newest_backup |-> newest_first[1].timestamp]

\* one entry of the "backups" list of the summary
SummaryEntry(b) ==
    [backup_id |-> b.backup_id, type |-> b.type, timestamp |-> b.timestamp,
     file |-> b.backup_file, size |-> StoredSize(b), compressed |-> b.compressed]

ExportBackupSummary(hist, now) ==
    LET newest_first == SortNewestFirst(hist) IN
    [export_date |-> IsoFormat(now), total_backups |-> Len(hist),
     backups |-> [i \in 1..Len(newest_first) |-> SummaryEntry(newest_first[i])],
     statistics |-> GetBackupStatistics(hist)]

(***************************************************************************)
(* State machine: one action per public call, plus the data-store layer    *)
(* rewriting a data file.                                                  *)
(***************************************************************************)
\* what the call before a create call was; the other calls do not record it
Summary(call) ==
    [op |-> call.op,
     data_file |-> IF "data_file" \in DOMAIN call.args
                   THEN call.args.data_file ELSE NoneArg,
     success |-> call.result.success,
     skipped |-> "skipped" \in DOMAIN call.result, writes |-> call.writes,
     loaded |-> IF "loaded" \in DOMAIN call.result THEN call.result.loaded ELSE TRUE]

NoPrev == [op |-> "init", data_file |-> NoneArg, success |-> TRUE,
           skipped |-> FALSE, writes |-> 0, loaded |-> TRUE]

NoCall == [op |-> "init", args |-> [none |-> TRUE], result |-> [success |-> TRUE],
           saves |-> 0, writes |-> 0, prev |-> NoPrev]

Init ==
    /\ clock = [day |-> 0, sec |-> 0, sub |-> 0]
    /\ files = [p \in WritablePaths |-> <<"0">>]
    /\ artifacts = << >>
    /\ safetyCopies = << >>
    /\ indexFile = [present |-> FALSE, records |-> <<>>]
    /\ backup_history = <<>>
    /\ last_backup_hash = NoneHash
    /\ last = NoCall
    /\ steps = 0
    /\ removed_ids = {}
    /\ other = [hist |-> <<>>, lbh |-> NoneHash]

Install(st) ==
    /\ backup_history' = st.hist
    /\ last_backup_hash' = st.lbh
    /\ artifacts' = st.arts
    /\ indexFile' = st.idx
    /\ files' = st.src
    /\ safetyCopies' = st.safety

CreateArgs == {DirPath, NoneArg}

CreateCall(op, out, arg, compress) ==
    /\ Install(out.st)
    /\ last' = [op |-> op, args |-> [data_file |-> ResolveDataFile(arg),
                                     compress |-> compress],
                result |-> out.result, saves |-> out.saves, writes |-> out.writes,
                prev |-> Summary(last)]

CreateFull ==
    \E d \in Deltas, arg \in CreateArgs, compress \in BOOLEAN :
        /\ steps < MaxSteps
        /\ steps' = steps + 1
        /\ UNCHANGED <<removed_ids, other>>
        /\ Len(backup_history) < MaxBackups
        /\ clock' = Advance(clock, d)
        /\ \E out \in {CreateFullBackup(EngineState, arg, compress, clock')} :
              CreateCall("create_full", out, arg, compress)

CreateIncremental ==
    \E d \in Deltas, arg \in CreateArgs, compress \in BOOLEAN :
        /\ steps < MaxSteps
        /\ steps' = steps + 1
        /\ UNCHANGED <<removed_ids, other>>
        /\ Len(backup_history) < MaxBackups
        /\ clock' = Advance(clock, d)
        /\ \E out \in {CreateIncrementalBackup(EngineState, arg, compress, clock')} :
              CreateCall("create_incremental", out, arg, compress)

CreateDifferential ==
    \E d \in Deltas, arg \in CreateArgs, compress \in BOOLEAN :
        /\ steps < MaxSteps
        /\ steps' = steps + 1
        /\ UNCHANGED <<removed_ids, other>>
        /\ Len(backup_history) < MaxBackups
        /\ clock' = Advance(clock, d)
        /\ \E out \in {CreateDifferentialBackup(EngineState, arg, compress, clock')} :
              CreateCall("create_differential", out, arg, compress)

\* lines 354-355: the destination a restore call resolves to
RestorePath(hist, backup_id, restore_arg) ==
    IF restore_arg # NoneArg \/ GetBackupInfo(hist, backup_id) = 0
    THEN restore_arg
    ELSE hist[GetBackupInfo(hist, backup_id)].source_file

\* the ids a caller may pass: the ids of the index and one id it never held
BackupIds ==
    {backup_history[i].backup_id : i \in 1..Len(backup_history)}
        \cup {BackupId([day |-> 0, sec |-> 0, sub |-> 0])}

Verify ==
    \E id \in BackupIds :
        /\ steps < MaxSteps
        /\ steps' = steps + 1
        /\ UNCHANGED <<removed_ids, other>>
        /\ UNCHANGED clock
        /\ last' = [op |-> "verify", args |-> [backup_id |-> id],
                    result |-> VerifyBackup(EngineState, id),
                    saves |-> 0, writes |-> 0, prev |-> NoPrev]
        /\ UNCHANGED <<files, artifacts, safetyCopies, indexFile,
                       backup_history, last_backup_hash>>

\* get_backup_info: the record itself, or None
GetInfo ==
    \E id \in BackupIds :
        /\ steps < MaxSteps
        /\ steps' = steps + 1
        /\ UNCHANGED <<removed_ids, other>>
        /\ UNCHANGED clock
        /\ last' = [op |-> "get_backup_info", args |-> [backup_id |-> id],
                    result |-> [success |-> GetBackupInfo(backup_history, id) # 0,
                                index |-> GetBackupInfo(backup_history, id)],
                    saves |-> 0, writes |-> 0, prev |-> NoPrev]
        /\ UNCHANGED <<files, artifacts, safetyCopies, indexFile,
                       backup_history, last_backup_hash>>

List ==
    \E limit \in Limits :
        /\ steps < MaxSteps
        /\ steps' = steps + 1
        /\ UNCHANGED <<removed_ids, other>>
        /\ UNCHANGED clock
        /\ backup_history' = HistoryAfterList(backup_history)
        /\ last' = [op |-> "list_backups", args |-> [limit |-> limit],
                    result |-> [success |-> TRUE,
                                backups |-> ListBackups(backup_history, limit)],
                    saves |-> 0, writes |-> 0, prev |-> NoPrev]
        /\ UNCHANGED <<files, artifacts, safetyCopies, indexFile, last_backup_hash>>

Statistics ==
    /\ steps < MaxSteps
    /\ steps' = steps + 1
    /\ UNCHANGED <<removed_ids, other>>
    /\ UNCHANGED clock
    /\ last' = [op |-> "get_backup_statistics", args |-> [none |-> TRUE],
                result |-> [success |-> TRUE,
                            statistics |-> GetBackupStatistics(backup_history)],
                saves |-> 0, writes |-> 0, prev |-> NoPrev]
    /\ UNCHANGED <<files, artifacts, safetyCopies, indexFile,
                   backup_history, last_backup_hash>>

Export ==
    \E d \in Deltas :
        /\ steps < MaxSteps
        /\ steps' = steps + 1
        /\ UNCHANGED <<removed_ids, other>>
        /\ clock' = Advance(clock, d)
        /\ last' = [op |-> "export_backup_summary", args |-> [none |-> TRUE],
                    result |-> [success |-> TRUE,
                                summary |-> ExportBackupSummary(backup_history, clock')],
                    saves |-> 0, writes |-> 0, prev |-> NoPrev]
        /\ UNCHANGED <<files, artifacts, safetyCopies, indexFile,
                       backup_history, last_backup_hash>>

Restore ==
    \E d \in Deltas, id \in BackupIds, dest \in DataPaths \cup {NoneArg},
       create_restore_backup \in BOOLEAN :
        /\ steps < MaxSteps
        /\ steps' = steps + 1
        /\ UNCHANGED <<removed_ids, other>>
        /\ clock' = Advance(clock, d)
        /\ \E out \in {RestoreBackup(EngineState, id, dest, create_restore_backup, clock')} :
              /\ Install(out.st)
              /\ last' = [op |-> "restore",
                          args |-> [backup_id |-> id,
                                    restore_path |-> RestorePath(backup_history, id, dest),
                                    create_restore_backup |-> create_restore_backup],
                          result |-> out.result, saves |-> 0, writes |-> 0,
                          prev |-> NoPrev]

\* the artifact files os.remove fails on during one cleanup: none, or the
\* file of the most recent record
LockedSets ==
    {{}} \cup {{SortNewestFirst(backup_history)[i].backup_file} :
                 i \in (1..Len(backup_history)) \cap {1}}

Cleanup ==
    \E d \in Deltas, keep_count \in 0..MaxKeepCount, keep_days \in 0..MaxKeepDays,
       locked \in LockedSets :
        /\ steps < MaxSteps
        /\ steps' = steps + 1
        /\ clock' = Advance(clock, d)
        /\ UNCHANGED other
        /\ \E out \in {CleanupOldBackups(EngineState, keep_count, keep_days, clock',
                                        locked)} :
              /\ Install(out.st)
              /\ removed_ids' = removed_ids \cup
                     {out.to_remove[i].backup_id : i \in 1..Len(out.to_remove)}
              /\ last' = [op |-> "cleanup",
                          args |-> [keep_count |-> keep_count, keep_days |-> keep_days,
                                    before |-> backup_history, locked |-> locked,
                                    files_before |-> DOMAIN artifacts],
                          result |-> out.result, saves |-> out.saves, writes |-> 0,
                          prev |-> NoPrev]

\* json.load accepts the document: a document cut short does not parse
Parses(idx) == "partial" \notin DOMAIN idx

\* mutant of LoadBackupIndex: the records of a document cut short are used
LoadBackupIndexSalvage(idx) == IF idx.present THEN idx.records ELSE <<>>

\* _load_backup_index: the records of the index file, or the empty list when
\* the file is missing or json.load raises
LoadBackupIndex(idx) == IF idx.present /\ Parses(idx) THEN idx.records ELSE <<>>

\* the process ends and a new engine is constructed over the same directory
Construct ==
    /\ steps < MaxSteps
    /\ steps' = steps + 1
    /\ backup_history' = LoadBackupIndex(indexFile)
    /\ last_backup_hash' = NoneHash
    /\ last' = [op |-> "construct", args |-> [none |-> TRUE],
                result |-> [success |-> TRUE,
                            loaded |-> indexFile.present /\ Parses(indexFile)],
                saves |-> 0, writes |-> 0,
                prev |-> NoPrev]
    /\ UNCHANGED <<clock, files, artifacts, safetyCopies, indexFile, removed_ids,
                   other>>

\* the data-store layer rewrites one of its files between two engine calls
WriteSource ==
    \E path \in WritablePaths, c \in Contents :
        /\ steps < MaxSteps
        /\ steps' = steps + 1
        /\ UNCHANGED <<removed_ids, other>>
        /\ IF path \in DOMAIN files THEN files[path] # c ELSE TRUE
        /\ files' = Put(files, path, c)
        /\ last' = [op |-> "write_source", args |-> [path |-> path],
                    result |-> [success |-> TRUE], saves |-> 0, writes |-> 0,
                    prev |-> NoPrev]
        /\ UNCHANGED <<clock, artifacts, safetyCopies, indexFile,
                       backup_history, last_backup_hash>>

Next ==
    \/ CreateFull
    \/ CreateIncremental
    \/ CreateDifferential
    \/ Verify
    \/ GetInfo
    \/ List
    \/ Statistics
    \/ Export
    \/ Restore
    \/ Cleanup
    \/ Construct
    \/ WriteSource

Spec == Init /\ [][Next]_vars

\* the directory after an earlier engine made one full backup of the data
\* file and ended; a new engine is constructed over it
EarlierRun ==
    CreateFullBackup([hist |-> <<>>, lbh |-> NoneHash, arts |-> << >>,
                      idx |-> [present |-> FALSE, records |-> <<>>],
                      src |-> [p \in WritablePaths |-> <<"0">>], safety |-> << >>],
                     DirPath, FALSE, [day |-> 0, sec |-> 0, sub |-> 1])

InitExisting ==
    /\ clock = [day |-> 0, sec |-> 0, sub |-> 1]
    /\ files = EarlierRun.st.src
    /\ artifacts = EarlierRun.st.arts
    /\ safetyCopies = << >>
    /\ indexFile = EarlierRun.st.idx
    /\ backup_history = LoadBackupIndex(EarlierRun.st.idx)
    /\ last_backup_hash = NoneHash
    /\ last = NoCall
    /\ steps = 0
    /\ removed_ids = {}
    /\ other = [hist |-> LoadBackupIndex(EarlierRun.st.idx), lbh |-> NoneHash]

SpecExisting == InitExisting /\ [][Next]_vars

(***************************************************************************)
(* Faults: the index file cannot be written, or a create_full_backup call  *)
(* is interrupted between two of its steps.                                *)
(***************************************************************************)
\* _save_backup_index when open(..., 'w') raises: the exception is printed
\* (lines 69-70) and the file stays as it was
SaveBackupIndexFails(idx, hist) == idx

\* the index file after a json.dump that was cut short: nothing written after
\* the truncation by open, or everything but the end of the document
CutDocuments(hist) ==
    {[present |-> TRUE, records |-> <<>>, partial |-> TRUE],
     [present |-> TRUE, records |-> hist, partial |-> TRUE]}

\* the points at which a create_full_backup call can be interrupted
Points == {"artifact_open", "artifact_written", "appended", "index_open",
           "index_partial"}

\* create_full_backup on an existing source, stopped at point; full is what
\* the whole call would have done
InterruptedCreateFull(st, full, backup_file, point) ==
    CASE point = "artifact_open" ->
            [st EXCEPT !.arts = Put(st.arts, backup_file, <<>>)]
      [] point = "artifact_written" ->
            [st EXCEPT !.arts = full.st.arts]
      [] point = "appended" ->
            [st EXCEPT !.arts = full.st.arts, !.hist = full.st.hist]
      [] point = "index_open" ->
            [full.st EXCEPT !.idx = [present |-> TRUE, records |-> <<>>,
                                     partial |-> TRUE]]
      [] point = "index_partial" ->
            [full.st EXCEPT !.idx = [present |-> TRUE, records |-> full.st.hist,
                                     partial |-> TRUE]]

\* create_full_backup while the index file cannot be opened for writing
CreateFullUnwritable ==
    \E d \in Deltas, compress \in BOOLEAN :
        /\ steps < MaxSteps
        /\ steps' = steps + 1
        /\ UNCHANGED <<removed_ids, other>>
        /\ Len(backup_history) < MaxBackups
        /\ clock' = Advance(clock, d)
        /\ \E out \in {CreateFullBackup(EngineState, DirPath, compress, clock')} :
              /\ Install([out.st EXCEPT !.idx =
                            IF out.saves = 0 THEN indexFile
                            ELSE SaveBackupIndexFails(indexFile, out.st.hist)])
              /\ last' = [op |-> "create_full",
                          args |-> [data_file |-> ResolveDataFile(DirPath),
                                    compress |-> compress, index_writable |-> FALSE],
                          result |-> out.result, saves |-> out.saves,
                          writes |-> out.writes, prev |-> Summary(last)]

\* a create_full_backup call that is interrupted
InterruptCreateFull ==
    \E d \in Deltas, compress \in BOOLEAN, point \in Points :
        /\ steps < MaxSteps
        /\ steps' = steps + 1
        /\ UNCHANGED <<removed_ids, other>>
        /\ Len(backup_history) < MaxBackups
        /\ DirPath \in DOMAIN files
        /\ clock' = Advance(clock, d)
        /\ \E full \in {CreateFullBackup(EngineState, DirPath, compress, clock')} :
              /\ point \in {"appended", "index_open", "index_partial"}
                    => full.result.success
              /\ Install(InterruptedCreateFull(EngineState, full,
                             ArtifactName(BackupId(clock'), compress), point))
              /\ last' = [op |-> "interrupted_create_full",
                          args |-> [data_file |-> ResolveDataFile(DirPath),
                                    compress |-> compress, point |-> point,
                                    before |-> backup_history,
                                    index_before |-> indexFile],
                          result |-> [success |-> FALSE], saves |-> 0, writes |-> 0,
                          prev |-> NoPrev]

\* the create calls and the construction of a new engine, with faults
NextFaults ==
    \/ CreateFull
    \/ CreateIncremental
    \/ CreateDifferential
    \/ Construct
    \/ CreateFullUnwritable
    \/ InterruptCreateFull

SpecFaults == Init /\ [][NextFaults]_vars

(***************************************************************************)
(* Two engines on one backup directory.  Each BackupEngine object holds    *)
(* its own backup_history and last_backup_hash, loaded once by __init__;   *)
(* the directory, the index file and the clock are shared.  The variables  *)
(* backup_history and last_backup_hash are those of the engine that makes  *)
(* the next call, other holds those of the engine that waits.              *)
(***************************************************************************)
\* the next call is made by the other engine
SwitchEngine ==
    /\ other' = [hist |-> backup_history, lbh |-> last_backup_hash]
    /\ backup_history' = other.hist
    /\ last_backup_hash' = other.lbh
    /\ UNCHANGED <<clock, files, artifacts, safetyCopies, indexFile, last, steps,
                   removed_ids>>

\* create_* and cleanup_old_backups calls of the two engines, interleaved
NextShared ==
    \/ CreateFull
    \/ CreateIncremental
    \/ CreateDifferential
    \/ Cleanup
    \/ SwitchEngine

SpecShared == Init /\ [][NextShared]_vars

(***************************************************************************)
(* Properties.                                                             *)
(***************************************************************************)
CreateOps == {"create_full", "create_incremental", "create_differential"}

Skipped(call) == "skipped" \in DOMAIN call.result

\* the last call was a create_* call that wrote a backup and reported success
Created == last.op \in CreateOps /\ last.result.success /\ ~Skipped(last)

Records(hist) == {hist[i] : i \in 1..Len(hist)}

\* C1: after every successful create_full, create_incremental (not skipped) or
\* create_differential call, verify_backup of the returned backup_id reports
\* valid = true, whatever the source content and the compress setting.
C1_VerifyAfterCreate ==
    Created =>
        LET v == VerifyBackup(EngineState, last.result.backup_id)
        IN "valid" \in DOMAIN v /\ v.valid

\* C2 as stated: two create_incremental calls in succession on an unchanged,
\* existing source write exactly one artifact in total, and the second call is skipped,
\* writes no artifact and appends no record.
C2_ExactlyOneArtifact ==
    [][(/\ last.op = "create_incremental"
        /\ last'.op = "create_incremental"
        /\ last'.args.data_file = last.args.data_file
        /\ last'.args.data_file \in DOMAIN files)
       => (/\ Skipped(last')
           /\ last'.result.success
           /\ last'.writes = 0
           /\ backup_history' = backup_history
           /\ last.writes + last'.writes = 1)]_vars

\* C2 amended: when the first of two create_incremental calls in succession on
\* an unchanged source returns success, the second returns success with
\* skipped = true, writes no artifact and appends no record; the two calls
\* write one artifact when the first was not skipped and none when it was.
C2_SecondCallSkipped ==
    [][(/\ last.op = "create_incremental"
        /\ last.result.success
        /\ last'.op = "create_incremental"
        /\ last'.args.data_file = last.args.data_file)
       => (/\ Skipped(last')
           /\ last'.result.success
           /\ last'.writes = 0
           /\ last'.saves = 0
           /\ backup_history' = backup_history
           /\ indexFile' = indexFile
           /\ artifacts' = artifacts
           /\ last.writes + last'.writes = (IF Skipped(last) THEN 0 ELSE 1))]_vars

\* a skipped create_incremental call right after one that wrote a backup of the
\* same source
C2_Witness ==
    /\ last.op = "create_incremental"
    /\ Skipped(last)
    /\ last.prev.op = "create_incremental"
    /\ last.prev.success
    /\ ~last.prev.skipped
    /\ last.prev.writes = 1
    /\ last.prev.data_file = last.args.data_file

\* C3: a restore_backup of a record of the index succeeds, for every
\* destination path, and leaves at the destination the content the source held
\* when that record's backup was created.
C3_RestoreIdentical ==
    (/\ last.op = "restore"
     /\ GetBackupInfo(backup_history, last.args.backup_id) # 0)
    => /\ last.result.success
       /\ last.args.restore_path \in DOMAIN files
       /\ \A r \in Records(backup_history) :
             r.backup_id = last.args.backup_id
                => GetFileHash(files, last.args.restore_path) = r.file_hash

\* number of records of the index before the cleanup that are newer than r
Rank(before, r) ==
    Cardinality({i \in 1..Len(before) : IsoLess(r.timestamp, before[i].timestamp)})

\* the retention rule for record r, at a cleanup(keep_count, keep_days) run now
Retained(before, r, keep_count, keep_days, now) ==
    \/ Rank(before, r) < keep_count
    \/ ~IsoLess(r.timestamp, IsoFormat(MinusDays(now, keep_days)))

\* C4: cleanup_old_backups(K, D) keeps a record exactly when its rank by
\* created_at descending is below K or its created_at is not older than now
\* minus D days, and the index afterwards holds no other record.
C4_RetentionPartition ==
    last.op = "cleanup" =>
        /\ \A r \in Records(last.args.before) :
              (r \in Records(backup_history))
                 <=> Retained(last.args.before, r, last.args.keep_count,
                              last.args.keep_days, clock)
        /\ Records(backup_history) \subseteq Records(last.args.before)

\* a cleanup that keeps a record outside the keep_count newest for its age and
\* removes an older one
C4_Witness ==
    /\ last.op = "cleanup"
    /\ \E r \in Records(backup_history) :
          Rank(last.args.before, r) >= last.args.keep_count
    /\ \E r \in Records(last.args.before) : r \notin Records(backup_history)

\* C5: a restore_backup call that fails leaves the content of every data file,
\* the destination included, as it was; a destination is only ever written
\* with content that passed the JSON check.
C5_FailedRestoreKeepsDest ==
    [][last'.op = "restore"
       => IF last'.result.success
          THEN /\ JsonLoads(TextRead(files'[last'.args.restore_path]))
               /\ \A p \in (DOMAIN files) \ {last'.args.restore_path} :
                     p \in DOMAIN files' /\ files'[p] = files[p]
          ELSE files' = files]_vars

\* a restore that failed on an artifact that does not parse, into a destination
\* that exists
C5_Witness ==
    /\ last.op = "restore"
    /\ ~last.result.success
    /\ last.result.error = "Restore failed: JSONDecodeError"
    /\ last.args.restore_path \in DOMAIN files

\* C6: a failed restore_backup call and a failed verify_backup call leave the
\* data files, the artifacts, the safety copies and the index file unchanged.
C6_FailedCallsChangeNothing ==
    [][(last'.op \in {"restore", "verify"} /\ ~last'.result.success)
       => UNCHANGED <<files, artifacts, safetyCopies, indexFile>>]_vars

\* C7: no two records of the index carry the same backup_id.
C7_UniqueBackupIds ==
    \A i, j \in 1..Len(backup_history) :
        i # j => backup_history[i].backup_id # backup_history[j].backup_id

\* what C8 says of a create_differential step from an index without Full record
FallbackAppendsFull ==
    /\ Len(backup_history') = Len(backup_history) + 1
    /\ SubSeq(backup_history', 1, Len(backup_history)) = backup_history
    /\ backup_history'[Len(backup_history')].type = "full"
    /\ "based_on" \notin DOMAIN backup_history'[Len(backup_history')]

FallbackEqualsFull ==
    LET full == CreateFullBackup(EngineState, last'.args.data_file,
                                 last'.args.compress, clock')
    IN /\ last'.result = full.result
       /\ backup_history' = full.st.hist
       /\ indexFile' = full.st.idx
       /\ artifacts' = full.st.arts
       /\ last_backup_hash' = full.st.lbh
       /\ "type" \notin DOMAIN last'.result
       /\ "based_on" \notin DOMAIN last'.result

\* C8 as stated: create_differential_backup on an index without Full record
\* appends exactly one record, of kind Full and without based_on, and its
\* result is that of create_full_backup.
C8_FallbackAlwaysAppends ==
    [][(last'.op = "create_differential" /\ LastFull(backup_history) = 0)
       => (FallbackAppendsFull /\ FallbackEqualsFull)]_vars

\* C8 amended: create_differential_backup on an index without Full record has
\* the result and the effect of create_full_backup on the same arguments, and
\* when it succeeds it appends exactly one record, of kind Full and without
\* based_on.
C8_FallbackIsFull ==
    [][(last'.op = "create_differential" /\ LastFull(backup_history) = 0)
       => /\ FallbackEqualsFull
          /\ last'.result.success => FallbackAppendsFull
          /\ ~last'.result.success => backup_history' = backup_history]_vars

\* a successful create_differential on an index that held one record, not Full
C8_Witness ==
    /\ last.op = "create_differential"
    /\ last.result.success
    /\ Len(backup_history) = 2
    /\ backup_history[1].type = "incremental"
    /\ backup_history[2].type = "full"
    /\ backup_history[2].backup_id = last.result.backup_id
    /\ backup_history[1].backup_id # last.result.backup_id

\* C9: a successful create_incremental_backup call that is not skipped appends
\* exactly one record, of kind Incremental, and leaves the kind of every
\* earlier record unchanged.
C9_IncrementalRetagsOwnRecord ==
    [][(last'.op = "create_incremental" /\ last'.result.success /\ ~Skipped(last'))
       => (/\ Len(backup_history') = Len(backup_history) + 1
           /\ backup_history'[Len(backup_history')].type = "incremental"
           /\ \A i \in 1..Len(backup_history) :
                 backup_history'[i].type = backup_history[i].type)]_vars

\* C10: create_full_backup on a source path that does not exist fails and
\* changes nothing: no artifact, no record, no index save, same last_backup_hash.
C10_MissingSourceChangesNothing ==
    [][(last'.op = "create_full" /\ last'.args.data_file \notin DOMAIN files)
       => (/\ ~last'.result.success
           /\ last'.writes = 0
           /\ last'.saves = 0
           /\ UNCHANGED <<files, artifacts, safetyCopies, indexFile,
                          backup_history, last_backup_hash>>)]_vars

\* a create_full on a missing source, by an engine that holds a record and a hash
C10_Witness ==
    /\ last.op = "create_full"
    /\ ~last.result.success
    /\ last.args.data_file \notin DOMAIN files
    /\ backup_history # <<>>
    /\ last_backup_hash # NoneHash


(***************************************************************************)
(* C11: verify_backup, list_backups, get_backup_info,                      *)
(* get_backup_statistics and export_backup_summary are read-only: a step   *)
(* made by one of them leaves the in-memory index, last_backup_hash, the   *)
(* index file, the artifact files and the source files unchanged.          *)
(***************************************************************************)
ReadOnlyOps ==
    {"verify", "list_backups", "get_backup_info", "get_backup_statistics",
     "export_backup_summary"}

C11_ReadOnlyCalls ==
    [][last'.op \in ReadOnlyOps =>
          UNCHANGED <<backup_history, last_backup_hash, indexFile, artifacts, files>>]_vars

\* a list call made on an index of several records that is not in the
\* order the call returns them in
C11_Witness ==
    /\ last.op = "list_backups"
    /\ Len(backup_history) >= 2
    /\ backup_history # SortNewestFirst(backup_history)
    /\ last.result.backups = SortNewestFirst(backup_history)
    /\ artifacts # << >>
    /\ indexFile.present


(***************************************************************************)
(* C12: last_backup_hash is not restored from the persisted index: the     *)
(* first call of a newly constructed engine, when it is                    *)
(* create_incremental_backup on a source file that exists, writes an       *)
(* artifact and appends a record, whatever the index holds.                *)
(***************************************************************************)
C12_FirstIncrementalWrites ==
    [][(/\ last.op \in {"init", "construct"}
        /\ last'.op = "create_incremental"
        /\ last'.args.data_file \in DOMAIN files)
       => /\ last'.writes = 1
          /\ Len(backup_history') = Len(backup_history) + 1]_vars


\* the records of the index before the last cleanup that its retention rule
\* schedules for removal
Scheduled ==
    {r \in Records(last.args.before) :
        ~Retained(last.args.before, r, last.args.keep_count, last.args.keep_days, clock)}

(***************************************************************************)
(* C13: cleanup_old_backups drops every record scheduled for removal from  *)
(* the index and deletes its artifact file unless os.remove fails on it;   *)
(* a missing or undeletable artifact does not end the call: the other      *)
(* scheduled artifacts are deleted, the new index is persisted and the     *)
(* call returns success.                                                   *)
(***************************************************************************)
C13_CleanupToleratesFailures ==
    last.op = "cleanup" =>
        /\ last.result.success
        /\ \A r \in Scheduled :
              /\ r \notin Records(backup_history)
              /\ r.backup_file \notin last.args.locked
                    => r.backup_file \notin DOMAIN artifacts
        /\ last.args.before # <<>>
              => /\ last.saves = 1
                 /\ indexFile = [present |-> TRUE, records |-> backup_history]

\* a cleanup in which the removal of one scheduled artifact failed and another
\* scheduled artifact was deleted afterwards
C13_Witness ==
    /\ last.op = "cleanup"
    /\ \E r1, r2 \in Scheduled :
          /\ IsoLess(r2.timestamp, r1.timestamp)
          /\ r1.backup_file \in last.args.locked
          /\ r1.backup_file \in DOMAIN artifacts
          /\ r2.backup_file \in last.args.files_before
          /\ r2.backup_file \notin DOMAIN artifacts


(***************************************************************************)
(* C14: the result of cleanup_old_backups reports what the call did: on an *)
(* index that held records, and with no deletion failing, removed_count is *)
(* the number of records dropped from the index, remaining_count the       *)
(* number of records left, and the two sum to the number of records before *)
(* the call, also when a dropped record's artifact was missing or shared.  *)
(***************************************************************************)
C14_CleanupCounts ==
    (last.op = "cleanup" /\ last.args.before # <<>> /\ last.args.locked = {}) =>
        /\ last.result.removed_count = Len(last.args.before) - Len(backup_history)
        /\ last.result.remaining_count = Len(backup_history)
        /\ last.result.removed_count + last.result.remaining_count
              = Len(last.args.before)


\* the sum of the stored sizes of the records of hist at the positions of I
RECURSIVE SizeSum(_, _)
SizeSum(hist, I) ==
    IF I = {} THEN 0
    ELSE LET i == CHOOSE j \in I : TRUE
         IN hist[i].size + SizeSum(hist, I \ {i})

\* the sum of the counts of by_type over the types of T
RECURSIVE CountSum(_, _)
CountSum(by_type, T) ==
    IF T = {} THEN 0
    ELSE LET t == CHOOSE u \in T : TRUE
         IN by_type[t] + CountSum(by_type, T \ {t})

\* statistics st describe the index hist
Describes(st, hist) ==
    /\ st.total_backups = Len(hist)
    /\ DOMAIN st.by_type = {hist[i].type : i \in 1..Len(hist)}
    /\ \A t \in DOMAIN st.by_type :
          st.by_type[t] = Cardinality({i \in 1..Len(hist) : hist[i].type = t})
    /\ CountSum(st.by_type, DOMAIN st.by_type) = st.total_backups
    /\ st.total_storage = SizeSum(hist, 1..Len(hist))
    /\ hist # <<>> =>
          /\ \E i \in 1..Len(hist) : hist[i].timestamp = st.oldest_backup
          /\ \E i \in 1..Len(hist) : hist[i].timestamp = st.newest_backup
          /\ \A i \in 1..Len(hist) :
                /\ ~IsoLess(hist[i].timestamp, st.oldest_backup)
                /\ ~IsoLess(st.newest_backup, hist[i].timestamp)

(***************************************************************************)
(* C15: get_backup_statistics describes the current index: total_backups   *)
(* is the number of records (and so the remaining_count of a cleanup that  *)
(* was the call before), the by_type counts sum to it, total_storage is    *)
(* the sum of the stored sizes, and oldest_backup and newest_backup are    *)
(* the least and the greatest timestamp of the index.                      *)
(***************************************************************************)
C15_StatisticsDescribeIndex ==
    [][last'.op = "get_backup_statistics" =>
          /\ Describes(last'.result.statistics, backup_history')
          /\ (last.op = "cleanup" /\ "remaining_count" \in DOMAIN last.result)
                => last'.result.statistics.total_backups = last.result.remaining_count]_vars

\* statistics of an index that holds records of two types, made at different
\* times, one of them compressed
C15_Witness ==
    /\ last.op = "get_backup_statistics"
    /\ Cardinality(DOMAIN last.result.statistics.by_type) >= 2
    /\ last.result.statistics.oldest_backup # last.result.statistics.newest_backup
    /\ \E i \in 1..Len(backup_history) :
          backup_history[i].size # backup_history[i].original_size
    /\ last.result.statistics.total_storage > 0


Ids(hist) == {hist[i].backup_id : i \in 1..Len(hist)}

\* every record of hist is still in later, at its position and with its
\* backup_id and timestamp
StillHolds(hist, later) ==
    \A i \in 1..Len(hist) :
        /\ i <= Len(later)
        /\ later[i].backup_id = hist[i].backup_id
        /\ later[i].timestamp = hist[i].timestamp

(***************************************************************************)
(* C16: a record leaves the index only through cleanup_old_backups, and    *)
(* removal is terminal: a create_*, verify, restore, list, statistics or   *)
(* export call removes no record from the in-memory index or the index     *)
(* file, and a backup_id that cleanup has removed from the index never     *)
(* appears in the index again.                                             *)
(***************************************************************************)
C16_RemovalOnlyByCleanupAndTerminal ==
    [][/\ last'.op \in CreateOps \cup ReadOnlyOps \cup {"restore"}
            => /\ StillHolds(backup_history, backup_history')
               /\ StillHolds(indexFile.records, indexFile'.records)
       /\ \A id \in removed_ids :
             id \notin Ids(backup_history) => id \notin Ids(backup_history')]_vars


\* the restore call failed before it looked at the destination
FailedAtLookup(call) ==
    /\ ~call.result.success
    /\ call.result.error \in {"Backup not found", "Backup file not found"}

(***************************************************************************)
(* C17: a restore_backup call with create_restore_backup true whose        *)
(* destination exists, and which found the record and the artifact,        *)
(* creates a safety copy that holds the content the destination had        *)
(* before the call; with the flag false, or a destination that does not    *)
(* exist, or a failure at the record or artifact lookup, the call creates  *)
(* no safety copy.                                                         *)
(***************************************************************************)
C17_SafetyCopyBeforeWrite ==
    [][last'.op = "restore" =>
          IF /\ last'.args.create_restore_backup
             /\ ~FailedAtLookup(last')
             /\ last'.args.restore_path \in DOMAIN files
          THEN \E n \in DOMAIN safetyCopies' :
                  /\ n.dest = last'.args.restore_path
                  /\ n.stamp = Strftime(clock')
                  /\ safetyCopies'[n] = files[last'.args.restore_path]
                  /\ \A m \in (DOMAIN safetyCopies') \ {n} :
                        m \in DOMAIN safetyCopies /\ safetyCopies'[m] = safetyCopies[m]
          ELSE safetyCopies' = safetyCopies]_vars

\* a successful restore that changed the destination and left a safety copy
\* of what the destination held
C17_Witness ==
    /\ last.op = "restore"
    /\ last.result.success
    /\ last.args.create_restore_backup
    /\ \E n \in DOMAIN safetyCopies :
          /\ n.dest = last.args.restore_path
          /\ n.stamp = Strftime(clock)
          /\ safetyCopies[n] # files[last.args.restore_path]


(***************************************************************************)
(* C18: list_backups returns records of the index sorted by timestamp      *)
(* descending; without a limit it returns all of them, and with a limit    *)
(* n >= 0 it returns at most n records, namely the most recent ones.       *)
(***************************************************************************)
C18_ListSortedAndLimited ==
    last.op = "list_backups" =>
        LET out == last.result.backups
            limit == last.args.limit
        IN /\ \A i, j \in 1..Len(out) :
                 i < j => ~IsoLess(out[i].timestamp, out[j].timestamp)
           /\ Records(out) \subseteq Records(backup_history)
           /\ ~limit.given => Len(out) = Len(backup_history)
           /\ limit.given =>
                 /\ Len(out) <= limit.n
                 /\ Len(out) = limit.n \/ Len(out) = Len(backup_history)
                 /\ \A r \in Records(backup_history) \ Records(out) :
                       \A k \in 1..Len(out) : ~IsoLess(out[k].timestamp, r.timestamp)


\* the Full record of hist with the greatest timestamp
GreatestFull(hist) ==
    CHOOSE r \in Records(hist) :
        /\ r.type = "full"
        /\ \A q \in Records(hist) : q.type = "full" => ~IsoLess(r.timestamp, q.timestamp)

(***************************************************************************)
(* C19: a successful create_differential_backup made while the index holds *)
(* a Full record appends one record of type differential whose based_on is *)
(* the backup_id of the Full record with the greatest timestamp in the     *)
(* index at that moment, also after cleanup_old_backups has rewritten the  *)
(* index.  Stated for calls that leave no two records with one backup_id.  *)
(***************************************************************************)
C19_DifferentialBasedOnLatestFull ==
    [][(/\ last'.op = "create_differential"
        /\ last'.result.success
        /\ \E r \in Records(backup_history) : r.type = "full"
        /\ Cardinality(Ids(backup_history')) = Len(backup_history'))
       => /\ Len(backup_history') = Len(backup_history) + 1
          /\ SubSeq(backup_history', 1, Len(backup_history)) = backup_history
          /\ LET new == backup_history'[Len(backup_history')]
             IN /\ new.type = "differential"
                /\ "based_on" \in DOMAIN new
                /\ new.based_on = GreatestFull(backup_history).backup_id]_vars


(***************************************************************************)
(* C20: in every reachable state each record that carries based_on is of   *)
(* type differential and references the backup_id of a different record,   *)
(* and a record of the index with the referenced backup_id is of type full.*)
(***************************************************************************)
C20_BasedOnReferencesFull ==
    \A r \in Records(backup_history) :
        "based_on" \in DOMAIN r =>
            /\ r.type = "differential"
            /\ r.based_on # r.backup_id
            /\ \A q \in Records(backup_history) :
                  q.backup_id = r.based_on => q.type = "full"


(***************************************************************************)
(* C21: after any sequence of create_*, restore_backup and                 *)
(* cleanup_old_backups calls every record of the index has its artifact    *)
(* file on disk; cleanup deletes no artifact a retained record refers to.  *)
(***************************************************************************)
C21_ArtifactsPresent ==
    \A r \in Records(backup_history) : r.backup_file \in DOMAIN artifacts


(***************************************************************************)
(* C22: whenever create_incremental_backup returns skipped = true for a    *)
(* source file that exists, the index holds a record made from that source *)
(* file whose file_hash is the current hash of the source.                 *)
(***************************************************************************)
C22_SkippedMeansBackedUp ==
    (/\ last.op = "create_incremental"
     /\ Skipped(last)
     /\ last.args.data_file \in DOMAIN files)
    => \E r \in Records(backup_history) :
          /\ r.source_file = last.args.data_file
          /\ r.file_hash = GetFileHash(files, last.args.data_file)


(***************************************************************************)
(* C23: create_incremental_backup on a source file that does not exist     *)
(* never returns success: in every engine state it returns the failure     *)
(* that reports the missing data file and appends no record.               *)
(***************************************************************************)
C23_IncrementalMissingSourceFails ==
    [][(/\ last'.op = "create_incremental"
        /\ last'.args.data_file \notin DOMAIN files)
       => /\ ~last'.result.success
          /\ last'.result.error = "Data file not found"
          /\ backup_history' = backup_history]_vars


(***************************************************************************)
(* C24: the engine flushes the index after every mutation: when a create_* *)
(* call has returned, the records an engine constructed now would load     *)
(* from the index file are the in-memory index, and a call that reports    *)
(* success and was not skipped has its record in the index file.           *)
(***************************************************************************)
C24_IndexFlushed ==
    last.op \in CreateOps =>
        /\ LoadBackupIndex(indexFile) = backup_history
        /\ Created =>
              \E r \in Records(LoadBackupIndex(indexFile)) :
                  r.backup_id = last.result.backup_id


(***************************************************************************)
(* C25: a create call interrupted between two of its steps leaves neither  *)
(* the in-memory index nor the index file holding a record whose artifact  *)
(* is missing or only partly written; writing the new artifact overwrites  *)
(* the artifact of no record that is already in the index.                 *)
(***************************************************************************)
C25_InterruptedCreateKeepsArtifacts ==
    last.op = "interrupted_create_full" =>
        \A r \in Records(backup_history) \cup Records(indexFile.records) :
            /\ r.backup_file \in DOMAIN artifacts
            /\ Len(artifacts[r.backup_file]) = r.size


(***************************************************************************)
(* C26: persisting the index is atomic with respect to an interruption:    *)
(* when a create call stops during _save_backup_index, the index file is   *)
(* as it was before the call or holds the complete new record set, never   *)
(* an empty or partly written document.                                    *)
(***************************************************************************)
C26_AtomicPersist ==
    last.op = "interrupted_create_full" =>
        \/ indexFile = last.args.index_before
        \/ indexFile = SaveBackupIndex(backup_history)


\* the backup_ids the cleanup call of a step scheduled for removal
ScheduledIds == Ids(last'.args.before) \ Ids(backup_history')

(***************************************************************************)
(* C27: when two engines share one backup directory and interleave         *)
(* create_* and cleanup_old_backups calls, a record that is in the index   *)
(* file stays in the index file through every call of either engine,       *)
(* unless the call is a cleanup_old_backups that scheduled it for removal. *)
(***************************************************************************)
C27_SharedIndexKeepsRecords ==
    [][\A id \in Ids(LoadBackupIndex(indexFile)) :
          \/ id \in Ids(LoadBackupIndex(indexFile'))
          \/ last'.op = "cleanup" /\ id \in ScheduledIds]_vars

(***************************************************************************)
(* C28: constructing an engine never fails because of the index file: when *)
(* the file is missing or does not parse the engine starts with an empty   *)
(* in-memory index and leaves the artifact files as they are, and the      *)
(* create call that follows on an existing, non-empty source succeeds,     *)
(* appends its record to the empty index and persists it.                  *)
(***************************************************************************)
C28_ConstructToleratesBadIndex ==
    [][/\ last'.op = "construct" =>
            /\ last'.result.success
            /\ artifacts' = artifacts
            /\ ~(indexFile.present /\ Parses(indexFile)) => backup_history' = <<>>
       /\ (/\ last.op = "construct"
           /\ ~last.result.loaded
           /\ last'.op \in CreateOps
           /\ "index_writable" \notin DOMAIN last'.args
           /\ last'.args.data_file \in DOMAIN files
           /\ ~(last'.args.compress /\ files[last'.args.data_file] = <<>>))
          => /\ last'.result.success
             /\ ~Skipped(last')
             /\ Len(backup_history') = 1
             /\ backup_history'[1].backup_id = last'.result.backup_id
             /\ LoadBackupIndex(indexFile') = backup_history'
             /\ \A f \in DOMAIN artifacts :
                   f # last'.result.backup_file
                      => f \in DOMAIN artifacts' /\ artifacts'[f] = artifacts[f]]_vars

\* a create call that succeeded on an engine constructed over an index file
\* that was missing or did not parse, beside an artifact of the earlier engine
C28_Witness ==
    /\ Created
    /\ last.prev.op = "construct"
    /\ ~last.prev.loaded
    /\ Len(backup_history) = 1
    /\ \E f \in DOMAIN artifacts : f # backup_history[1].backup_file


(***************************************************************************)
(* C29: cleanup never removes a Full record while a Differential record    *)
(* based on it is retained: every Differential record of the index whose   *)
(* based_on was the backup_id of a record before a cleanup_old_backups     *)
(* call still has that id in the index after the call.                     *)
(***************************************************************************)
C29_CleanupKeepsBase ==
    [][last'.op = "cleanup" =>
          \A i \in 1..Len(backup_history') :
             (/\ backup_history'[i].type = "differential"
              /\ "based_on" \in DOMAIN backup_history'[i]
              /\ backup_history'[i].based_on \in Ids(backup_history))
                => backup_history'[i].based_on \in Ids(backup_history')]_vars


(***************************************************************************)
(* C30: a later restore never overwrites the safety copy made by an        *)
(* earlier one: when two successful restore_backup calls with the safety   *)
(* copy requested follow each other on the same destination, the content   *)
(* the first call saved in its safety copy is still held by some safety    *)
(* copy of that destination after the second call, also when both calls    *)
(* run within the same clock second.                                       *)
(***************************************************************************)
C30_SafetyCopiesKept ==
    [][(/\ last.op = "restore"
        /\ last.result.success
        /\ last.args.create_restore_backup
        /\ SafetyName(last.args.restore_path, clock) \in DOMAIN safetyCopies
        /\ last'.op = "restore"
        /\ last'.result.success
        /\ last'.args.create_restore_backup
        /\ last'.args.restore_path = last.args.restore_path)
       => \E m \in DOMAIN safetyCopies' :
             /\ m.dest = last.args.restore_path
             /\ safetyCopies'[m] =
                   safetyCopies[SafetyName(last.args.restore_path, clock)]]_vars

====
